---- MODULE Spec2Model ----
(***************************************************************************)
(* Model of the chat orchestration of generic-extractor:                   *)
(*   - POST /api/chat (web/src/app/api/chat/route.ts): the bounded         *)
(*     completion / tool-call loop, the SSE events it sends and the batch  *)
(*     of chat_messages rows it inserts at the end of a turn;              *)
(*   - the chat_messages table (migrations/004_projects.sql) and the       *)
(*     read of it ordered by created_at.                                   *)
(***************************************************************************)
EXTENDS Integers, Sequences, FiniteSets, TLC

\* ------------------------------------------------------------------ bounds
MAX_TOOL_ROUNDS == 10

\* executor.ts
MAX_RESULT_CHARS == 30000
\* the length of {"success":true,"message":"Config '' deleted"}
DeleteOverhead == 46

\* requests (turns) handled in one behaviour
MaxTurns == 2
\* tool calls carried by one completion response
MaxCalls == 2
\* completion calls in one behaviour
MaxCompletions == 11
\* frames of the stream one sendMessage reads
MaxFrames == 2
\* events handed to handleEvent in one behaviour of SpecEvents
MaxEvents == 4
\* how far around MAX_RESULT_CHARS the drawn serialization lengths reach
MaxExcess == 2
\* messages one of the concurrent requests accumulates
MaxBatch == 3
\* events of a response body that the reader is followed through in SpecTurn
MaxStream == 5
\* transports the MCP HTTP server creates in one behaviour
MaxTransports == 2
\* requests the MCP HTTP server handles in one behaviour
MaxRequests == 4
\* sendMessage calls of one mounted hook
MaxSends == 2

\* ------------------------------------------------------------------ values
Null == "null"
NoProject == ""
NoId == 0

KnownTools == {"list_configs"}
ToolNames == KnownTools \cup {"no_such_tool"}
ArgumentTexts == {"{}", "{bad"}
UserTexts == <<"q1", "q2", "q3", "q4">>

VARIABLES
    store,              \* extraction.chat_messages of the project, in insertion order
    clock,              \* the database's NOW()
    turn,               \* requests received so far
    total,              \* completion calls made so far, over all turns
    deviation,          \* <<>>, or <<k>>: the one request (k = minus its number)
                        \* or completion call (k = its number) of the behaviour
                        \* that left the plain course (an authorised request with
                        \* a project id, rows read in insertion order, responses
                        \* that answer or ask for one list_configs call, which
                        \* succeeds); in the turns after one in which a completion
                        \* call left it, the backend asks for no more tools
    nextId,             \* next tool-call id the backend assigns
    pc,                 \* position of the POST handler
    projectId,          \* body.projectId
    clientMessages,     \* body.messages
    history,            \* rows read at the start of the turn
    conversation,       \* the Conversation Context
    requestMessages,    \* messages of the last completion request of the turn
    messagesToPersist,  \* rows accumulated for the final insert
    rounds,             \* loop counter
    tool_calls,         \* assistantMsg.tool_calls of the current round
    tcIndex,            \* index of tc in the for loop
    events              \* SSE events enqueued on the stream, in order

serverVars == <<store, clock, turn, total, deviation, nextId, pc, projectId,
                clientMessages, history, conversation, requestMessages,
                messagesToPersist, rounds, tool_calls, tcIndex, events>>

VARIABLES
    cpc,                \* position of sendMessage
    stream,             \* the bytes of the response body
    pos,                \* how many of them the reader has returned
    buffer,             \* carry-over of the read loop
    messages,           \* useState: the UI messages
    status,             \* useState: the status line
    isLoading,          \* useState
    handled             \* the events passed to handleEvent so far

clientVars == <<cpc, stream, pos, buffer, messages, status, isLoading, handled>>

VARIABLES
    tpc,                \* position of one executeTool call
    callName,              \* its name argument
    callArgs,              \* its args argument
    tresponse,          \* what the extraction service answered
    requests,           \* requests the call has sent to the extraction service
    tresult             \* what the call returned or threw

toolVars == <<tpc, callName, callArgs, tresponse, requests, tresult>>

VARIABLES
    bpc,                \* position of each of the concurrent POST handlers
    batches               \* messagesToPersist of each of them

batchVars == <<bpc, batches>>

VARIABLES
    sessions,           \* startHttp: Map from session id to transport
    transports,         \* the transports created so far: sessionId and state
    served,             \* requests the HTTP server has handled
    answered            \* the last request and what became of it

mcpVars == <<sessions, transports, served, answered>>

VARIABLES
    spc,                \* position of each sendMessage call of the hook
    remaining,          \* events of each call's response body not yet read
    abortRef,           \* abortRef.current: the call whose controller it holds
    aborted,            \* the calls whose controller has been aborted
    cancelled,          \* the calls that were in flight when stopGeneration ran
    lpc                 \* position of loadHistory

chatVars == <<spc, remaining, abortRef, aborted, cancelled, lpc>>

vars == <<serverVars, clientVars, toolVars, batchVars, mcpVars, chatVars>>

\* what the actions of one component leave alone
exceptServer == <<clientVars, toolVars, batchVars, mcpVars, chatVars>>
exceptClient == <<serverVars, toolVars, batchVars, mcpVars, chatVars>>
exceptTools == <<serverVars, clientVars, batchVars, mcpVars, chatVars>>
exceptMcp == <<serverVars, clientVars, toolVars, batchVars, chatVars>>
\* the hook's state outside messages, status and isLoading, and all the rest
exceptChat == <<serverVars, toolVars, batchVars, mcpVars, cpc, stream, pos, buffer, handled>>

\* ------------------------------------------------------------------ messages
\* OpenRouterMessage / ChatMessage: one record shape, absent fields are Null,
\* <<>> (no tool_calls) and NoId (no tool_call_id).
Msg(role, content, tcs, tcid, tname) ==
    [role |-> role, content |-> content, tool_calls |-> tcs,
     tool_call_id |-> tcid, tool_name |-> tname]

\* content ?? ""
Coalesce(content) == IF content = Null THEN "" ELSE content

\* one row of extraction.chat_messages; created_at DEFAULT NOW()
Row(m, now) ==
    [role |-> m.role, content |-> m.content, tool_calls |-> m.tool_calls,
     tool_call_id |-> m.tool_call_id, tool_name |-> m.tool_name,
     created_at |-> now]

\* the OpenRouterMessage built from a history row
OrMsg(row) == Msg(row.role, row.content, row.tool_calls, row.tool_call_id, Null)

\* lines 61-69: one OpenRouterMessage per row, in the order read
OrMsgs(rows) == [i \in 1..Len(rows) |-> OrMsg(rows[i])]

\* ------------------------------------------------------------------ history store
RunStart(s, i) ==
    CHOOSE j \in 1..i :
        /\ \A k \in j..i : s[k].created_at = s[i].created_at
        /\ (j = 1 \/ s[j-1].created_at # s[i].created_at)

RunEnd(s, i) ==
    CHOOSE j \in i..Len(s) :
        /\ \A k \in i..j : s[k].created_at = s[i].created_at
        /\ (j = Len(s) \/ s[j+1].created_at # s[i].created_at)

\* rows sorted by created_at, every run of equal created_at reversed
ReverseTies(s) == [i \in 1..Len(s) |-> s[RunStart(s, i) + RunEnd(s, i) - i]]

\* .order("created_at", {ascending: true}): rows with equal created_at come in
\* an order the query does not fix; two of the permitted orders are drawn.
OrderByCreatedAt(rows) == {rows, ReverseTies(rows)}

\* a bug: the batch is written newest first
Insert_Reversed(rows, batch, now) ==
    rows \o [i \in 1..Len(batch) |-> Row(batch[Len(batch) + 1 - i], now)]

\* supabase.from("chat_messages").insert(batch): one statement, one NOW()
Insert(rows, batch, now) == rows \o [i \in 1..Len(batch) |-> Row(batch[i], now)]

\* ------------------------------------------------------------------ SSE events
Event(type, tool_name, payload) ==
    [type |-> type, tool_name |-> tool_name, payload |-> payload]

\* a bug: the frame is enqueued twice
send_Twice(evs, type, tool_name, payload) ==
    Append(Append(evs, Event(type, tool_name, payload)),
           Event(type, tool_name, payload))

\* send(event, data): controller.enqueue of one frame
send(evs, type, tool_name, payload) == Append(evs, Event(type, tool_name, payload))

\* ------------------------------------------------------------------ collaborators
\* tc.function.arguments || "{}"
ArgsText(tc) == IF tc.arguments = "" THEN "{}" ELSE tc.arguments

\* JSON.parse(text) returns; otherwise it throws a SyntaxError
JsonParses(text) == text = "{}"

\* what executeTool(name, args) can resolve to: it catches every failure of the
\* extraction service and returns it as text; an unrecognised name is text too
executeTool(name) ==
    IF name \in KnownTools THEN {"result-json", "error-json"}
    ELSE {"unknown-tool-json"}

\* the tool calls a completion response can carry, ids assigned by the backend
CallShapes == { c \in ToolNames \X ArgumentTexts : c[1] \in KnownTools \/ c[2] = "{}" }

ToolCallLists(firstId) ==
    UNION { { [i \in 1..n |-> [id |-> firstId + i - 1,
                               name |-> f[i][1],
                               arguments |-> f[i][2]]] :
              f \in [1..n -> CallShapes] } : n \in 1..MaxCalls }

PlainCalls(firstId) ==
    << [id |-> firstId, name |-> "list_configs", arguments |-> "{}"] >>

\* a completion call of an earlier turn has left the plain course (the calls
\* of this turn are numbered total - rounds + 1 .. total)
BackendDeviated ==
    /\ deviation # <<>>
    /\ deviation[1] > 0
    /\ deviation[1] <= total - rounds

\* the environment leaves the plain course at most once in a behaviour
Deviate(plain, k) ==
    IF plain THEN UNCHANGED deviation
    ELSE /\ deviation \in {<<>>, <<k>>}
         /\ deviation' = <<k>>

\* ------------------------------------------------------------------ POST /api/chat
SystemMsg == Msg("system", "system-prompt", <<>>, NoId, Null)

UserMsg(m) == Msg(m.role, m.content, <<>>, NoId, Null)

\* for (const m of clientMessages)
UserMsgs(ms) == [i \in 1..Len(ms) |-> UserMsg(ms[i])]

\* a bug: the bound is inclusive
LoopGuard_Inclusive(r) == r <= MAX_TOOL_ROUNDS

\* while (rounds < MAX_TOOL_ROUNDS)
LoopGuard(r) == r < MAX_TOOL_ROUNDS

MayCallBackend == total < MaxCompletions

\* the request is rejected before any stream is opened
PostUnauthorized ==
    /\ pc \in {"idle", "closed", "unauthorized", "crashed"}
    /\ turn < MaxTurns
    /\ turn' = turn + 1
    /\ Deviate(FALSE, -(turn + 1))
    /\ pc' = "unauthorized"
    /\ projectId' = NoProject
    /\ clientMessages' = <<>>
    /\ history' = <<>>
    /\ conversation' = <<>>
    /\ requestMessages' = <<>>
    /\ messagesToPersist' = <<>>
    /\ rounds' = 0
    /\ tool_calls' = <<>>
    /\ tcIndex' = 0
    /\ events' = <<>>
    /\ UNCHANGED <<store, clock, total, nextId>>
    /\ UNCHANGED exceptServer

\* lines 30-100: read the history, build the conversation, open the stream
Post(pid) ==
    /\ pc \in {"idle", "closed", "unauthorized", "crashed"}
    /\ turn < MaxTurns
    /\ MayCallBackend
    /\ turn' = turn + 1
    /\ projectId' = pid
    /\ clientMessages' = << [role |-> "user", content |-> UserTexts[turn + 1]] >>
    /\ history' \in (IF pid # NoProject THEN OrderByCreatedAt(store) ELSE {<<>>})
    /\ Deviate(pid # NoProject /\ history' = store, -(turn + 1))
    /\ conversation' = <<SystemMsg>> \o OrMsgs(history')
                          \o UserMsgs(clientMessages')
    /\ requestMessages' = <<>>
    /\ messagesToPersist' = UserMsgs(clientMessages')
    /\ rounds' = 0
    /\ tool_calls' = <<>>
    /\ tcIndex' = 0
    /\ events' = <<>>
    /\ pc' = "loop"
    /\ UNCHANGED <<store, clock, total, nextId>>
    /\ UNCHANGED exceptServer

\* a bug: the context is a window that drops its oldest message after the prompt
push_Window(conv, msg) == <<conv[1]>> \o SubSeq(conv, 3, Len(conv)) \o <<msg>>

\* lines 141 and 173: conversation.push(msg)
push(conv, msg) == Append(conv, msg)

\* a bug: the loop goes on to the next round (a retry)
AfterBackendFailure_Retry == "loop"

\* where the loop goes after a failed completion call: break
AfterBackendFailure == "persist"

\* lines 105-136 and 204-208: the completion call fails (status not ok),
\* yields no choice, or throws (transport failure, undecodable body)
BackendFails(failure) ==
    /\ pc = "loop"
    /\ LoopGuard(rounds)
    /\ MayCallBackend
    /\ Deviate(FALSE, total + 1)
    /\ rounds' = rounds + 1
    /\ total' = total + 1
    /\ events' = send(events, "error", Null, failure)
    /\ requestMessages' = conversation
    /\ pc' = AfterBackendFailure
    /\ UNCHANGED <<store, clock, turn, nextId, projectId, clientMessages,
                   history, conversation, messagesToPersist, tool_calls, tcIndex>>
    /\ UNCHANGED exceptServer

\* a bug: an empty answer is not sent
FinalEvents_SkipEmpty(evs, content) ==
    IF content = "" THEN evs ELSE send(evs, "message", Null, content)

\* the events of the final text response
FinalEvents(evs, content) == send(evs, "message", Null, content)

\* lines 138-141 and 189-202: a response without tool calls is the final answer
FinalAnswer(content) ==
    /\ pc = "loop"
    /\ LoopGuard(rounds)
    /\ MayCallBackend
    /\ Deviate(content # Null, total + 1)
    /\ rounds' = rounds + 1
    /\ total' = total + 1
    /\ requestMessages' = conversation
    /\ conversation' = push(conversation, Msg("assistant", content, <<>>, NoId, Null))
    /\ events' = FinalEvents(events, Coalesce(content))
    /\ messagesToPersist' =
           Append(messagesToPersist, Msg("assistant", Coalesce(content), <<>>, NoId, Null))
    /\ pc' = "persist"
    /\ UNCHANGED <<store, clock, turn, nextId, projectId, clientMessages,
                   history, tool_calls, tcIndex>>
    /\ UNCHANGED exceptServer

\* lines 138-152: a response with tool calls
ToolCallsRequested(list) ==
    /\ pc = "loop"
    /\ ~BackendDeviated
    /\ LoopGuard(rounds)
    /\ MayCallBackend
    /\ Deviate(list = PlainCalls(nextId), total + 1)
    /\ nextId' = nextId + Len(list)
    /\ rounds' = rounds + 1
    /\ total' = total + 1
    /\ requestMessages' = conversation
    /\ conversation' = push(conversation, Msg("assistant", Null, list, NoId, Null))
    /\ messagesToPersist' =
           Append(messagesToPersist, Msg("assistant", Coalesce(Null), list, NoId, Null))
    /\ tool_calls' = list
    /\ tcIndex' = 1
    /\ pc' = "tools"
    /\ UNCHANGED <<store, clock, turn, projectId, clientMessages, history, events>>
    /\ UNCHANGED exceptServer

\* a bug: the exhausted round limit is reported to the client
ExhaustedEvents_Reported(evs) == send(evs, "error", Null, "round limit")

\* line 105: nothing is sent when the loop condition fails
ExhaustedEvents(evs) == evs

\* line 105: the loop condition fails after MAX_TOOL_ROUNDS rounds
LoopExit ==
    /\ pc = "loop"
    /\ ~LoopGuard(rounds)
    /\ events' = ExhaustedEvents(events)
    /\ pc' = "persist"
    /\ UNCHANGED <<store, clock, turn, total, deviation, nextId, projectId,
                   clientMessages, history, conversation, requestMessages,
                   messagesToPersist,
                   rounds, tool_calls, tcIndex>>
    /\ UNCHANGED exceptServer

\* a bug: the status line is sent before the tool_call event
CallEvents_StatusFirst(evs, name) ==
    send(send(evs, "status", Null, name), "tool_call", name, "args")

\* lines 156-160: the events sent before executeTool is called
CallEvents(evs, name) ==
    send(send(evs, "tool_call", name, "args"), "status", Null, name)

\* lines 154-160: the arguments decode; tool_call and status are sent
ToolCallEmit ==
    /\ pc = "tools"
    /\ LET tc == tool_calls[tcIndex] IN
        /\ JsonParses(ArgsText(tc))
        /\ events' = CallEvents(events, tc.name)
    /\ pc' = "exec"
    /\ UNCHANGED <<store, clock, turn, total, deviation, nextId, projectId,
                   clientMessages, history, conversation, requestMessages,
                   messagesToPersist,
                   rounds, tool_calls, tcIndex>>
    /\ UNCHANGED exceptServer

\* lines 156-158 and 204-208: JSON.parse throws while the tool_call payload is
\* built, before anything is sent; the catch block sends an error event
ToolCallArgsThrow ==
    /\ pc = "tools"
    /\ ~JsonParses(ArgsText(tool_calls[tcIndex]))
    /\ events' = send(events, "error", Null, "SyntaxError")
    /\ pc' = "persist"
    /\ UNCHANGED <<store, clock, turn, total, deviation, nextId, projectId,
                   clientMessages, history, conversation, requestMessages,
                   messagesToPersist,
                   rounds, tool_calls, tcIndex>>
    /\ UNCHANGED exceptServer

\* a bug: a tool failure is not reported to the client
ResultEvents_OnlySuccess(evs, name, result) ==
    IF result = "result-json" THEN send(evs, "tool_result", name, result) ELSE evs

\* the events sent once executeTool has returned
ResultEvents(evs, name, result) == send(evs, "tool_result", name, result)

\* a bug: a tool failure ends the loop
AfterToolResult_StopOnError(result, last) ==
    IF result # "result-json" THEN "persist"
    ELSE IF last THEN "loop" ELSE "tools"

\* lines 154 and 186: the next tool call of the response, or after the last
\* one `continue`, whatever the result was
AfterToolResult(result, last) == IF last THEN "loop" ELSE "tools"

\* a bug: each tool message is written to the table as soon as it is produced
StoreAfterTool_Eager(rows, msg, now) == Insert(rows, <<msg>>, now)

\* lines 168-183: the tool message is only pushed on messagesToPersist; the
\* table is not touched inside the loop
StoreAfterTool(rows, msg, now) == rows

\* lines 162-186: executeTool returns; tool_result is sent and the tool message
\* is pushed on the conversation and on messagesToPersist
ToolCallFinish(result) ==
    /\ pc = "exec"
    /\ LET tc == tool_calls[tcIndex] IN
        /\ result \in executeTool(tc.name)
        /\ Deviate(tc.name \notin KnownTools \/ result = "result-json", total)
        /\ events' = ResultEvents(events, tc.name, result)
        /\ conversation' = push(conversation, Msg("tool", result, <<>>, tc.id, Null))
        /\ messagesToPersist' =
               Append(messagesToPersist, Msg("tool", result, <<>>, tc.id, tc.name))
        /\ store' = StoreAfterTool(store, Msg("tool", result, <<>>, tc.id, tc.name), clock)
    /\ tcIndex' = tcIndex + 1
    /\ pc' = AfterToolResult(result, tcIndex = Len(tool_calls))
    /\ UNCHANGED <<clock, turn, total, nextId, projectId, clientMessages,
                   history, requestMessages, rounds, tool_calls>>
    /\ UNCHANGED exceptServer

\* a bug: done is sent only when the loop ended without an error event
CloseEvents_NotAfterError(evs) ==
    IF \E i \in DOMAIN evs : evs[i].type = "error" THEN evs
    ELSE send(evs, "done", Null, Null)

\* the events that end the stream
CloseEvents(evs) == send(evs, "done", Null, Null)

\* lines 210-216: insert the batch, send done, close the stream
PersistAndDone ==
    /\ pc = "persist"
    /\ IF projectId # NoProject /\ Len(messagesToPersist) > 0
       THEN /\ store' = Insert(store, messagesToPersist, clock)
            /\ clock' = clock + 1
       ELSE UNCHANGED <<store, clock>>
    /\ events' = CloseEvents(events)
    /\ pc' = "closed"
    /\ UNCHANGED <<turn, total, deviation, nextId, projectId, clientMessages,
                   history, conversation, requestMessages, messagesToPersist,
                   rounds, tool_calls, tcIndex>>
    /\ UNCHANGED exceptServer

\* lines 82-86 and 204-208: the client has gone away in the middle of the loop;
\* controller.enqueue throws inside send, in the try block and again in the
\* catch block, and the start callback ends there, before line 210
Crash ==
    /\ pc \in {"loop", "tools", "exec"}
    /\ Deviate(FALSE, total)
    /\ pc' = "crashed"
    /\ UNCHANGED <<store, clock, turn, total, nextId, projectId, clientMessages,
                   history, conversation, requestMessages, messagesToPersist,
                   rounds, tool_calls, tcIndex, events>>
    /\ UNCHANGED exceptServer

ServerInit ==
    /\ store = <<>>
    /\ clock = 1
    /\ turn = 0
    /\ total = 0
    /\ deviation = <<>>
    /\ nextId = 1
    /\ pc = "idle"
    /\ projectId = NoProject
    /\ clientMessages = <<>>
    /\ history = <<>>
    /\ conversation = <<>>
    /\ requestMessages = <<>>
    /\ messagesToPersist = <<>>
    /\ rounds = 0
    /\ tool_calls = <<>>
    /\ tcIndex = 0
    /\ events = <<>>

ServerNext ==
    \/ PostUnauthorized
    \/ (turn < MaxTurns /\ \E pid \in {"p1", NoProject} : Post(pid))
    \/ \E failure \in {"LLM API error", "No response from LLM", "fetch failed"} :
           BackendFails(failure)
    \/ \E content \in {"answer", Null} : FinalAnswer(content)
    \/ (pc = "loop" /\ ~BackendDeviated
          /\ \E list \in ToolCallLists(nextId) : ToolCallsRequested(list))
    \/ LoopExit
    \/ ToolCallEmit
    \/ ToolCallArgsThrow
    \/ \E result \in {"result-json", "error-json", "unknown-tool-json"} :
           ToolCallFinish(result)
    \/ PersistAndDone

\* ------------------------------------------------------------------ wire format
\* One element of the byte stream. The fixed substrings "event: ", "data: " and
\* "\n" are elements of their own, so are an event name and a JSON text: a chunk
\* boundary between two elements can fall inside a line.
Tok(ch, tool_name, text) == [ch |-> ch, tool_name |-> tool_name, text |-> text]
NL == Tok("\n", Null, Null)

\* JSON.stringify(data)
JsonText(ev) == Tok("json", ev.tool_name, ev.payload)

\* send: `event: ${event}\ndata: ${JSON.stringify(data)}\n\n`
Encode(ev) ==
    << Tok("event: ", Null, Null), Tok("name", Null, ev.type), NL,
       Tok("data: ", Null, Null), JsonText(ev), NL, NL >>

\* a frame whose data line is not JSON
JunkFrame(type) ==
    << Tok("event: ", Null, Null), Tok("name", Null, type), NL,
       Tok("data: ", Null, Null), Tok("junk", Null, Null), NL, NL >>

RECURSIVE Flatten(_)
Flatten(ss) == IF ss = <<>> THEN <<>> ELSE Head(ss) \o Flatten(Tail(ss))

\* the frames a response body is made of: the i-th frame carries the i-th text
FrameKinds == {"status", "call_a", "call_b", "result_a", "message", "error",
               "done", "junk"}
Texts == <<"t1", "t2", "t3", "t4", "t5", "t6">>

FrameOf(kind, i) ==
    CASE kind = "status"   -> Encode(Event("status", Null, Texts[i]))
      [] kind = "call_a"   -> Encode(Event("tool_call", "list_configs", "args"))
      [] kind = "call_b"   -> Encode(Event("tool_call", "no_such_tool", "args"))
      [] kind = "result_a" -> Encode(Event("tool_result", "list_configs", Texts[i]))
      [] kind = "message"  -> Encode(Event("message", Null, Texts[i]))
      [] kind = "error"    -> Encode(Event("error", Null, Texts[i]))
      [] kind = "done"     -> Encode(Event("done", Null, Null))
      [] OTHER             -> JunkFrame("message")

Bodies ==
    UNION { { Flatten([i \in 1..n |-> FrameOf(ks[i], i)]) : ks \in [1..n -> FrameKinds] } :
            n \in 0..MaxFrames }

\* ------------------------------------------------------------------ useChat
\* ChatMessageUI; content is the sequence of the texts it concatenates
UiMsg(id, role, content, toolCalls, isStreaming) ==
    [id |-> id, role |-> role, content |-> content, toolCalls |-> toolCalls,
     isStreaming |-> isStreaming]

\* prev.map((m) => m.id === id ? f(m) : m)
MapMsg(msgs, id, f) ==
    [i \in 1..Len(msgs) |-> IF msgs[i].id = id THEN f[msgs[i]] ELSE msgs[i]]

Members(msgs) == { msgs[i] : i \in DOMAIN msgs }

\* !tc.result
Unresolved(tc) == tc.result = Null \/ tc.result = ""

\* toolCalls.findLastIndex((tc) => tc.name === name && !tc.result); 0 for -1
FindLastIndex(toolCalls, name) ==
    LET hits == { i \in 1..Len(toolCalls) :
                    toolCalls[i].name = name /\ Unresolved(toolCalls[i]) }
    IN IF hits = {} THEN 0 ELSE CHOOSE i \in hits : \A j \in hits : j <= i

AttachResult(m, name, result) ==
    LET idx == FindLastIndex(m.toolCalls, name)
    IN IF idx > 0
       THEN [m EXCEPT !.toolCalls = [@ EXCEPT ![idx] = [@ EXCEPT !.result = result]]]
       ELSE m

\* a bug: the error text is shown but the message keeps streaming
OnError_StillStreaming(m, detail) == [m EXCEPT !.content = <<"Error: ", detail>>]

\* lines 198-206: { ...m, content: `Error: ${event.message}`, isStreaming: false }
OnError(m, detail) ==
    [m EXCEPT !.content = <<"Error: ", detail>>, !.isStreaming = FALSE]

\* handleEvent(event, assistantId) on the state [messages, status, handled]
handleEvent(st0, event, assistantId) ==
    LET st == [st0 EXCEPT !.handled = Append(@, event)] IN
    CASE event.type = "status" ->
           [st EXCEPT !.status = event.payload]
      [] event.type = "tool_call" ->
           LET F(m) == [m EXCEPT !.toolCalls =
                           Append(@, [name |-> event.tool_name, args |-> event.payload,
                                      result |-> Null])]
           IN [st EXCEPT !.messages = MapMsg(@, assistantId, [m \in Members(@) |-> F(m)])]
      [] event.type = "tool_result" ->
           LET F(m) == AttachResult(m, event.tool_name, event.payload)
           IN [st EXCEPT !.messages = MapMsg(@, assistantId, [m \in Members(@) |-> F(m)])]
      [] event.type = "message" ->
           LET F(m) == [m EXCEPT !.content = << event.payload >>]
           IN [st EXCEPT !.messages = MapMsg(@, assistantId, [m \in Members(@) |-> F(m)])]
      [] event.type = "error" ->
           LET F(m) == OnError(m, event.payload)
           IN [st EXCEPT !.messages = MapMsg(@, assistantId, [m \in Members(@) |-> F(m)])]
      [] OTHER -> st

\* buffer.split("\n"): the pieces between line feeds, the last one unterminated
RECURSIVE Split(_, _)
Split(s, piece) ==
    IF s = <<>> THEN << piece >>
    ELSE IF Head(s) = NL THEN << piece >> \o Split(Tail(s), <<>>)
    ELSE Split(Tail(s), Append(piece, Head(s)))

StartsWith(line, ch) == Len(line) > 0 /\ line[1].ch = ch

\* line.slice(7) of an event line, as the type handleEvent switches on
EventTypeOf(line) ==
    IF Len(line) = 2 /\ line[2].ch = "name" THEN line[2].text ELSE "?"

\* a bug: a payload that is not JSON is handed to handleEvent as well
DataParses_Lenient(line) == Len(line) = 2

\* JSON.parse(line.slice(6)) returns
DataParses(line) == Len(line) = 2 /\ line[2].ch = "json"

\* lines 113-127: the lines of one chunk, eventType starting at ""
RECURSIVE ApplyLines(_, _, _, _)
ApplyLines(lines, eventType, st, assistantId) ==
    IF lines = <<>> THEN st
    ELSE LET line == Head(lines) IN
         IF StartsWith(line, "event: ")
         THEN ApplyLines(Tail(lines), EventTypeOf(line), st, assistantId)
         ELSE IF StartsWith(line, "data: ") /\ DataParses(line)
         THEN ApplyLines(Tail(lines), eventType,
                         handleEvent(st, Event(eventType, line[2].tool_name, line[2].text),
                                     assistantId),
                         assistantId)
         ELSE ApplyLines(Tail(lines), eventType, st, assistantId)

\* the eventType a chunk's lines start with: let eventType = "" (line 113)
ChunkEventType == ""

\* lines 109-127: one chunk added to the buffer; the state and the new buffer
ApplyChunk(st, buf, chunk, assistantId) ==
    LET pieces == Split(buf \o chunk, <<>>)
        lines  == SubSeq(pieces, 1, Len(pieces) - 1)
    IN [st |-> ApplyLines(lines, ChunkEventType, st, assistantId),
        buffer |-> pieces[Len(pieces)]]

UserId == "tmp-1"
AssistantId == "tmp-1-assistant"

\* lines 130-135
MarkDone(m) == [m EXCEPT !.isStreaming = FALSE]

\* lines 54-68: the user message and the streaming assistant placeholder
Optimistic == << UiMsg(UserId, "user", << "hello" >>, <<>>, FALSE),
                 UiMsg(AssistantId, "assistant", <<>>, <<>>, TRUE) >>

\* lines 51-87: optimistic messages, then the request is sent
SendMessage ==
    /\ cpc = "idle"
    /\ messages = <<>>
    /\ isLoading' = TRUE
    /\ status' = Null
    /\ messages' = messages \o Optimistic
    /\ cpc' = "fetching"
    /\ UNCHANGED <<stream, pos, buffer, handled>>
    /\ UNCHANGED exceptClient

\* lines 89-99: the response is not ok or has no body
FetchNotOk ==
    /\ cpc = "fetching"
    /\ LET F(m) == [m EXCEPT !.content = <<"Error: ", "Failed to get response">>,
                             !.isStreaming = FALSE]
       IN messages' = MapMsg(messages, AssistantId, [m \in Members(messages) |-> F(m)])
    /\ isLoading' = FALSE
    /\ cpc' = "failed"
    /\ UNCHANGED <<stream, pos, buffer, status, handled>>
    /\ UNCHANGED exceptClient

\* lines 101-103: the response is ok; its body is one of Bodies
FetchOk(body) ==
    /\ cpc = "fetching"
    /\ stream' = body
    /\ pos' = 0
    /\ buffer' = <<>>
    /\ cpc' = "reading"
    /\ UNCHANGED <<messages, status, isLoading, handled>>
    /\ UNCHANGED exceptClient

\* lines 105-128: reader.read() returns the next n elements
ReadChunk(n) ==
    /\ cpc = "reading"
    /\ pos + n <= Len(stream)
    /\ LET r == ApplyChunk([messages |-> messages, status |-> status,
                            handled |-> handled], buffer,
                           SubSeq(stream, pos + 1, pos + n), AssistantId)
       IN /\ messages' = r.st.messages
          /\ status' = r.st.status
          /\ handled' = r.st.handled
          /\ buffer' = r.buffer
    /\ pos' = pos + n
    /\ UNCHANGED <<cpc, stream, isLoading>>
    /\ UNCHANGED exceptClient

\* lines 106-107, 130-135 and 148-149: the stream has ended
ReadDone ==
    /\ cpc = "reading"
    /\ pos = Len(stream)
    /\ messages' = MapMsg(messages, AssistantId, [m \in Members(messages) |-> MarkDone(m)])
    /\ isLoading' = FALSE
    /\ status' = Null
    /\ cpc' = "done"
    /\ UNCHANGED <<stream, pos, buffer, handled>>
    /\ UNCHANGED exceptClient

\* lines 136-149: fetch or reader.read() rejects with an error other than AbortError
RequestFails ==
    /\ cpc \in {"fetching", "reading"}
    /\ LET F(m) == [m EXCEPT !.content = <<"Error: ", "network error">>,
                             !.isStreaming = FALSE]
       IN messages' = MapMsg(messages, AssistantId, [m \in Members(messages) |-> F(m)])
    /\ isLoading' = FALSE
    /\ status' = Null
    /\ cpc' = "failed"
    /\ UNCHANGED <<stream, pos, buffer, handled>>
    /\ UNCHANGED exceptClient

ClientInit ==
    /\ cpc = "idle"
    /\ stream = <<>>
    /\ pos = 0
    /\ buffer = <<>>
    /\ messages = <<>>
    /\ status = Null
    /\ isLoading = FALSE
    /\ handled = <<>>

ClientNext ==
    \/ SendMessage
    \/ FetchNotOk
    \/ (cpc = "fetching" /\ \E body \in Bodies : FetchOk(body))
    \/ (cpc = "reading" /\ \E n \in 1..(Len(stream) - pos) : ReadChunk(n))
    \/ ReadDone
    \/ RequestFails

\* ------------------------------------------------------------------ executeTool
\* A text a tool call returns, by what the claims observe of it: "result" is
\* the JSON serialization of a successful result, of which `shown` of its `of`
\* characters are included, followed by the truncation notice or not; "error"
\* is JSON.stringify({ error: message }).
ResultText(shown, of, notice) ==
    [kind |-> "result", shown |-> shown, of |-> of, notice |-> notice, message |-> Null]

ErrorText(message) ==
    [kind |-> "error", shown |-> 0, of |-> 0, notice |-> FALSE, message |-> message]

\* no text yet
NoText == [kind |-> "none", shown |-> 0, of |-> 0, notice |-> FALSE, message |-> Null]

\* truncate(result), on the length of JSON.stringify(result, null, 2)
truncate(len) ==
    IF len <= MAX_RESULT_CHARS THEN ResultText(len, len, FALSE)
    ELSE ResultText(MAX_RESULT_CHARS, len, TRUE)

\* the cases of the switch, by what they do
ArgFreeTools == {"list_configs", "list_datasets"}
ForwardingTools ==
    {"list_extractions", "get_extraction_snapshot", "get_node", "get_content",
     "get_dataset", "query_dataset_rows", "create_config", "update_config"}
ExtractTools == {"extract_document", "extract_sheet"}
ToolCases == ArgFreeTools \cup ForwardingTools \cup ExtractTools \cup {"delete_config"}

\* the lengths drawn for a serialization: short, and around the budget
JsonLengths ==
    {2} \cup ((MAX_RESULT_CHARS - MaxExcess)..(MAX_RESULT_CHARS + MaxExcess))

\* JSON.stringify({ success: true, message: `Config '${args.name}' deleted` })
\* is DeleteOverhead characters longer than the name
DeleteMessageLen(name_len) == DeleteOverhead + name_len

NameLengths == { len - DeleteOverhead : len \in JsonLengths \ {2} } \cup {8}

\* args: null (JSON.parse("null")), or an object of which the model keeps
\* whether each file source is truthy and how long args.name is
NoArgs ==
    [object |-> FALSE, file_url |-> FALSE, file_base64 |-> FALSE,
     file_path |-> FALSE, name_len |-> 0]

ArgsValues ==
    {NoArgs} \cup
    [object : {TRUE}, file_url : BOOLEAN, file_base64 : BOOLEAN,
     file_path : BOOLEAN, name_len : {8}] \cup
    [object : {TRUE}, file_url : {FALSE}, file_base64 : {FALSE},
     file_path : {FALSE}, name_len : NameLengths]

NoResponse == [kind |-> "none", len |-> 0]

\* what the extraction service does with a request
Responses ==
    {[kind |-> "unreachable", len |-> 0],
     [kind |-> "not_ok", len |-> 0],
     [kind |-> "not_json", len |-> 0],
     [kind |-> "no_content", len |-> 4]} \cup
    { [kind |-> "json", len |-> len] : len \in JsonLengths }

\* the result of evaluating a piece of the function body
Returned(text) == [thrown |-> FALSE, request |-> FALSE, text |-> text]
Thrown(message) == [thrown |-> TRUE, request |-> FALSE, text |-> ErrorText(message)]
Request == [thrown |-> FALSE, request |-> TRUE, text |-> NoText]

\* api(path, init): the value's serialization length, or the error thrown
api(response) ==
    CASE response.kind = "unreachable" -> [thrown |-> TRUE, len |-> 0, message |-> "fetch failed"]
      [] response.kind = "not_ok" -> [thrown |-> TRUE, len |-> 0, message |-> "Extractor API status: body"]
      [] response.kind = "not_json" -> [thrown |-> TRUE, len |-> 0, message |-> "SyntaxError"]
      [] OTHER -> [thrown |-> FALSE, len |-> response.len, message |-> Null]

\* a bug: executeTool has no catch
Catch_Rethrow(r) == r

\* lines 178-182: what is thrown in the try block is returned as error text
Catch(r) == IF r.thrown THEN Returned(r.text) ELSE r

\* the switch up to the first await: a text returned at once, an exception, or
\* Request when the case calls api
Dispatch(name, args) ==
    IF name \notin ToolCases THEN Returned(ErrorText("Unknown tool"))
    ELSE IF name \in ArgFreeTools THEN Request
    ELSE IF ~args.object THEN Thrown("TypeError")
    ELSE IF name \in ExtractTools
    THEN IF args.file_url THEN Request
         ELSE IF args.file_base64 THEN Request
         ELSE Returned(ErrorText("Provide file_base64 or file_url"))
    ELSE Request

\* the rest of the case once api has settled
Complete(name, args, response) ==
    LET r == api(response) IN
    IF r.thrown THEN Thrown(r.message)
    ELSE IF name = "delete_config"
    THEN LET len == DeleteMessageLen(args.name_len)
         IN Returned(ResultText(len, len, FALSE))
    ELSE Returned(truncate(r.len))

\* route.ts:163: executeTool(toolName, toolArgs) is called
CallTool(name, args) ==
    /\ tpc \in {"idle", "returned", "thrown"}
    /\ tpc' = "called"
    /\ callName' = name
    /\ callArgs' = args
    /\ tresponse' = NoResponse
    /\ requests' = 0
    /\ tresult' = NoText
    /\ UNCHANGED exceptTools

Settle(r) ==
    /\ tpc' = IF r.thrown THEN "thrown" ELSE "returned"
    /\ tresult' = r.text

\* the call returns or throws without a request
ReturnAtOnce ==
    /\ tpc = "called"
    /\ ~Dispatch(callName, callArgs).request
    /\ Settle(Catch(Dispatch(callName, callArgs)))
    /\ UNCHANGED <<callName, callArgs, tresponse, requests>>
    /\ UNCHANGED exceptTools

\* the call sends its request: await api(...)
SendRequest ==
    /\ tpc = "called"
    /\ Dispatch(callName, callArgs).request
    /\ tpc' = "requested"
    /\ requests' = requests + 1
    /\ UNCHANGED <<callName, callArgs, tresponse, tresult>>
    /\ UNCHANGED exceptTools

\* the extraction service answers, or the request fails
ApiSettles(response) ==
    /\ tpc = "requested"
    /\ tresponse' = response
    /\ Settle(Catch(Complete(callName, callArgs, response)))
    /\ UNCHANGED <<callName, callArgs, requests>>
    /\ UNCHANGED exceptTools

\* ------------------------------------------------------------------ MCP HTTP transport
\* randomUUID(): the id the t-th transport generates
SessionIds == <<"s1", "s2", "s3", "s4">>

\* the mcp-session-id header: absent, or any text
NoSession == ""
HeaderValues == {NoSession, "s1", "s2", "s3", "unknown"}

Methods == {"GET", "DELETE", "POST", "PUT"}

\* the request body: an initialize request, another JSON message, or text that
\* JSON.parse rejects
BodyKinds == {"initialize", "message", "undecodable"}

NoTransport == 0

Transport(sessionId, state) == [sessionId |-> sessionId, state |-> state]

\* sessionId && sessions.has(sessionId)
Registered(map, sessionId) == sessionId # NoSession /\ sessionId \in DOMAIN map

\* sessions.delete(id)
MapDelete(map, id) == [i \in DOMAIN map \ {id} |-> map[i]]

\* a bug: the close callback leaves the registry as it is
OnClose_Keep(map, transport) == map

\* lines 954-958: transport.onclose
OnClose(map, transport) ==
    IF transport.sessionId # NoSession THEN MapDelete(map, transport.sessionId) ELSE map

Outcome(method, sessionId, body, code, routed) ==
    [method |-> method, sessionId |-> sessionId, body |-> body, status |-> code,
     routed |-> routed]

\* lines 923-932 and 971-972: GET, DELETE and any other method on /mcp
McpOther(method, sessionId) ==
    /\ served < MaxRequests
    /\ method # "POST"
    /\ served' = served + 1
    /\ answered' =
          IF method \in {"GET", "DELETE"}
          THEN IF Registered(sessions, sessionId)
               THEN Outcome(method, sessionId, Null, "handled", sessions[sessionId])
               ELSE Outcome(method, sessionId, Null, "400", NoTransport)
          ELSE Outcome(method, sessionId, Null, "405", NoTransport)
    /\ UNCHANGED <<sessions, transports>>
    /\ UNCHANGED exceptMcp

\* lines 935-943 and 966-968: POST with a JSON body, to a registered session or
\* without one and not an initialize request; lines 893-899: readBody throws on
\* a body that is not JSON and the handler ends without a answered
McpPost(sessionId, body) ==
    /\ served < MaxRequests
    /\ body = "undecodable" \/ Registered(sessions, sessionId) \/ body # "initialize"
    /\ served' = served + 1
    /\ answered' =
          IF body = "undecodable"
          THEN Outcome("POST", sessionId, body, "none", NoTransport)
          ELSE IF Registered(sessions, sessionId)
          THEN Outcome("POST", sessionId, body, "handled", sessions[sessionId])
          ELSE Outcome("POST", sessionId, body, "400", NoTransport)
    /\ UNCHANGED <<sessions, transports>>
    /\ UNCHANGED exceptMcp

\* lines 946-964: an initialize POST outside a registered session creates a
\* transport and hands it the request; when the transport accepts it, it
\* generates its session id and calls onsessioninitialized
McpInitialize(sessionId, accepted) ==
    /\ served < MaxRequests
    /\ Len(transports) < MaxTransports
    /\ ~Registered(sessions, sessionId)
    /\ served' = served + 1
    /\ LET t == Len(transports) + 1
           id == SessionIds[t]
       IN /\ transports' = Append(transports,
                                  IF accepted THEN Transport(id, "initialized")
                                  ELSE Transport(NoSession, "new"))
          /\ sessions' = IF accepted THEN (id :> t) @@ sessions ELSE sessions
          /\ answered' = Outcome("POST", sessionId, "initialize", "handled", t)
    /\ UNCHANGED exceptMcp

\* lines 954-958: the transport closes (a DELETE it handled, or the server side
\* closing it) and its close callback runs
TransportCloses(t) ==
    /\ t \in DOMAIN transports
    /\ transports[t].state # "closed"
    /\ sessions' = OnClose(sessions, transports[t])
    /\ transports' = [transports EXCEPT ![t].state = "closed"]
    /\ UNCHANGED <<served, answered>>
    /\ UNCHANGED exceptMcp

McpInit ==
    /\ sessions = << >>
    /\ transports = << >>
    /\ served = 0
    /\ answered = Outcome(Null, NoSession, Null, Null, NoTransport)

McpNext ==
    \/ \E method \in Methods, sessionId \in HeaderValues : McpOther(method, sessionId)
    \/ \E sessionId \in HeaderValues, body \in BodyKinds : McpPost(sessionId, body)
    \/ \E sessionId \in HeaderValues, accepted \in BOOLEAN :
           McpInitialize(sessionId, accepted)
    \/ \E t \in 1..MaxTransports : TransportCloses(t)

\* ------------------------------------------------------------------ useChat, several calls
Sends == 1..MaxSends

\* `tmp-${Date.now()}` and `tmp-${Date.now()}-assistant` of the k-th call
ChatUserIds == <<"tmp-1", "tmp-2", "tmp-3", "tmp-4">>
ChatAssistantIds == <<"tmp-1-assistant", "tmp-2-assistant", "tmp-3-assistant",
                      "tmp-4-assistant">>

NoCall == 0

\* lines 54-68 for the k-th call
OptimisticOf(k) == << UiMsg(ChatUserIds[k], "user", << "hello" >>, <<>>, FALSE),
                      UiMsg(ChatAssistantIds[k], "assistant", <<>>, <<>>, TRUE) >>

\* the response bodies of this part, as the events of their frames
ChatBodies ==
    { << Event("message", Null, "t1"), Event("done", Null, Null) >>,
      << Event("error", Null, "t1"), Event("done", Null, Null) >>,
      << Event("status", Null, "t1") >> }

\* the rows GET /api/projects/:id/messages returns
HistoryRows == { <<>>, << [id |-> "row-1", role |-> "user", content |-> "old"] >> }

\* lines 25-42: the UI messages made of the rows
Loaded(rows) ==
    [i \in 1..Len(rows) |-> UiMsg(rows[i].id, rows[i].role, << rows[i].content >>,
                                   <<>>, FALSE)]

InFlight == { k \in Sends : spc[k] \in {"fetching", "reading"} }

\* a bug: every failure is shown, the abort too
CatchError_NoSuppress(msgs, id, name, message) ==
    LET F(m) == [m EXCEPT !.content = <<"Error: ", message>>, !.isStreaming = FALSE]
    IN MapMsg(msgs, id, [m \in Members(msgs) |-> F(m)])

\* lines 136-146: catch (err): shown unless err.name is "AbortError"
CatchError(msgs, id, name, message) ==
    IF name # "AbortError"
    THEN LET F(m) == [m EXCEPT !.content = <<"Error: ", message>>,
                               !.isStreaming = FALSE]
         IN MapMsg(msgs, id, [m \in Members(msgs) |-> F(m)])
    ELSE msgs

\* lines 51-87: the k-th sendMessage: optimistic messages, a new controller in
\* abortRef, the request sent
ChatSend(k) ==
    /\ spc[k] = "idle"
    /\ \A j \in 1..(k - 1) : spc[j] # "idle"
    /\ isLoading' = TRUE
    /\ status' = Null
    /\ messages' = messages \o OptimisticOf(k)
    /\ abortRef' = k
    /\ spc' = [spc EXCEPT ![k] = "fetching"]
    /\ UNCHANGED <<remaining, aborted, cancelled, lpc>>
    /\ UNCHANGED exceptChat

\* lines 89-99: the response is not ok
ChatFetchNotOk(k) ==
    /\ spc[k] = "fetching"
    /\ k \notin aborted
    /\ LET F(m) == [m EXCEPT !.content = <<"Error: ", "Failed to get response">>,
                             !.isStreaming = FALSE]
       IN messages' = MapMsg(messages, ChatAssistantIds[k],
                             [m \in Members(messages) |-> F(m)])
    /\ isLoading' = FALSE
    /\ spc' = [spc EXCEPT ![k] = "notok"]
    /\ UNCHANGED <<status, remaining, abortRef, aborted, cancelled, lpc>>
    /\ UNCHANGED exceptChat

\* lines 101-103: the response is ok
ChatFetchOk(k, body) ==
    /\ spc[k] = "fetching"
    /\ k \notin aborted
    /\ remaining' = [remaining EXCEPT ![k] = body]
    /\ spc' = [spc EXCEPT ![k] = "reading"]
    /\ UNCHANGED <<messages, status, isLoading, abortRef, aborted, cancelled, lpc>>
    /\ UNCHANGED exceptChat

\* lines 105-127: reader.read() of the k-th call returns the next frame and its
\* event is handed to handleEvent
ChatApply(k) ==
    /\ spc[k] = "reading"
    /\ k \notin aborted
    /\ remaining[k] # <<>>
    /\ LET st == handleEvent([messages |-> messages, status |-> status,
                              handled |-> <<>>], Head(remaining[k]),
                             ChatAssistantIds[k])
       IN /\ messages' = st.messages
          /\ status' = st.status
    /\ remaining' = [remaining EXCEPT ![k] = Tail(@)]
    /\ UNCHANGED <<isLoading, spc, abortRef, aborted, cancelled, lpc>>
    /\ UNCHANGED exceptChat

\* lines 106-107, 130-135, 148-149: the stream of the k-th call has ended
ChatStreamEnd(k) ==
    /\ spc[k] = "reading"
    /\ k \notin aborted
    /\ remaining[k] = <<>>
    /\ messages' = MapMsg(messages, ChatAssistantIds[k],
                          [m \in Members(messages) |-> MarkDone(m)])
    /\ isLoading' = FALSE
    /\ status' = Null
    /\ spc' = [spc EXCEPT ![k] = "done"]
    /\ UNCHANGED <<remaining, abortRef, aborted, cancelled, lpc>>
    /\ UNCHANGED exceptChat

\* lines 136-149: fetch or reader.read() of the k-th call rejects, not by abort
ChatFails(k) ==
    /\ spc[k] \in {"fetching", "reading"}
    /\ k \notin aborted
    /\ messages' = CatchError(messages, ChatAssistantIds[k], "TypeError", "network error")
    /\ isLoading' = FALSE
    /\ status' = Null
    /\ spc' = [spc EXCEPT ![k] = "failed"]
    /\ UNCHANGED <<remaining, abortRef, aborted, cancelled, lpc>>
    /\ UNCHANGED exceptChat

\* lines 213-217: stopGeneration (its button is shown while isLoading)
StopGeneration ==
    /\ isLoading
    /\ aborted' = IF abortRef # NoCall THEN aborted \cup {abortRef} ELSE aborted
    /\ cancelled' = cancelled \cup InFlight
    /\ isLoading' = FALSE
    /\ status' = Null
    /\ UNCHANGED <<messages, spc, remaining, abortRef, lpc>>
    /\ UNCHANGED exceptChat

\* lines 136-149: the pending fetch or read of an aborted call rejects with an
\* AbortError
ChatAbortRejects(k) ==
    /\ spc[k] \in {"fetching", "reading"}
    /\ k \in aborted
    /\ messages' = CatchError(messages, ChatAssistantIds[k], "AbortError", "aborted")
    /\ isLoading' = FALSE
    /\ status' = Null
    /\ spc' = [spc EXCEPT ![k] = "aborted"]
    /\ UNCHANGED <<remaining, abortRef, aborted, cancelled, lpc>>
    /\ UNCHANGED exceptChat

\* chat-panel.tsx 21-23 and use-chat.ts 20-22: the mount effect calls loadHistory
LoadHistoryStart ==
    /\ lpc = "idle"
    /\ lpc' = "loading"
    /\ UNCHANGED <<messages, status, isLoading, spc, remaining, abortRef, aborted,
                   cancelled>>
    /\ UNCHANGED exceptChat

\* lines 23-43: the rows arrive; setMessages(loaded)
LoadHistoryCompletes(rows) ==
    /\ lpc = "loading"
    /\ messages' = Loaded(rows)
    /\ lpc' = "loaded"
    /\ UNCHANGED <<status, isLoading, spc, remaining, abortRef, aborted, cancelled>>
    /\ UNCHANGED exceptChat

\* lines 23 and 44-46: the response is not ok, or the request throws
LoadHistoryFails ==
    /\ lpc = "loading"
    /\ lpc' = "failed"
    /\ UNCHANGED <<messages, status, isLoading, spc, remaining, abortRef, aborted,
                   cancelled>>
    /\ UNCHANGED exceptChat

ChatInit ==
    /\ spc = [k \in Sends |-> "idle"]
    /\ remaining = [k \in Sends |-> <<>>]
    /\ abortRef = NoCall
    /\ aborted = {}
    /\ cancelled = {}
    /\ lpc = "idle"

\* ------------------------------------------------------------------ concurrent turns
\* two requests for the same project whose handlers run at the same time
Handlers == {1, 2}

\* the text of the k-th message handler h accumulates
BatchTexts == << <<"a1", "a2", "a3", "a4", "a5">>, <<"b1", "b2", "b3", "b4", "b5">> >>

\* what the batch handlers leave alone of the orchestrator's state
batchFrame == <<turn, total, deviation, nextId, pc, projectId, clientMessages,
                conversation, requestMessages, messagesToPersist, rounds,
                tool_calls, tcIndex, events, clientVars, toolVars, mcpVars,
                chatVars>>

\* route.ts 88-100: a request arrives; its user message opens messagesToPersist
BatchPost(h) ==
    /\ bpc[h] = "idle"
    /\ bpc' = [bpc EXCEPT ![h] = "loop"]
    /\ batches' = [batches EXCEPT ![h] = << Msg("user", BatchTexts[h][1], <<>>, NoId, Null) >>]
    /\ UNCHANGED <<store, clock, history>>
    /\ UNCHANGED batchFrame

\* route.ts 145-151, 175-181, 194-200: messagesToPersist.push
BatchPush(h, role) ==
    /\ bpc[h] = "loop"
    /\ Len(batches[h]) < MaxBatch
    /\ batches' = [batches EXCEPT ![h] =
           Append(@, Msg(role, BatchTexts[h][Len(@) + 1], <<>>, NoId, Null))]
    /\ UNCHANGED <<bpc, store, clock, history>>
    /\ UNCHANGED batchFrame

\* route.ts 210-213: the handler's one insert statement; the statements of the
\* two handlers run one after the other, each at its own NOW()
BatchInsert(h) ==
    /\ bpc[h] = "loop"
    /\ store' = Insert(store, batches[h], clock)
    /\ clock' = clock + 1
    /\ bpc' = [bpc EXCEPT ![h] = "done"]
    /\ UNCHANGED <<batches, history>>
    /\ UNCHANGED batchFrame

\* route.ts 53-58: a reader selects the project's rows ordered by created_at
BatchRead ==
    /\ store # <<>>
    /\ history' \in OrderByCreatedAt(store)
    /\ UNCHANGED <<bpc, batches, store, clock>>
    /\ UNCHANGED batchFrame

BatchInit ==
    /\ bpc = [h \in Handlers |-> "idle"]
    /\ batches = [h \in Handlers |-> <<>>]

BatchNext ==
    \/ \E h \in Handlers : BatchPost(h)
    \/ \E h \in Handlers : \E role \in {"assistant", "tool"} : BatchPush(h, role)
    \/ \E h \in Handlers : BatchInsert(h)
    \/ BatchRead

ToolInit ==
    /\ tpc = "idle"
    /\ callName = Null
    /\ callArgs = NoArgs
    /\ tresponse = NoResponse
    /\ requests = 0
    /\ tresult = NoText

ToolNext ==
    \/ (tpc # "called" /\ tpc # "requested"
          /\ \E name \in ToolCases \cup {"no_such_tool"} : \E args \in ArgsValues :
                 CallTool(name, args))
    \/ ReturnAtOnce
    \/ SendRequest
    \/ \E response \in Responses : ApiSettles(response)

\* ------------------------------------------------------------------ specifications
Init == ServerInit /\ ClientInit /\ ToolInit /\ BatchInit /\ McpInit /\ ChatInit

Next == ServerNext

\* the orchestrator and the history store
Spec == Init /\ [][Next]_vars

NextCrash == ServerNext \/ Crash

\* the orchestrator, with streams that the client may abandon in mid-turn
SpecCrash == Init /\ [][NextCrash]_vars

NextBatches == BatchNext

\* two concurrent POST handlers of one project and a reader of its history
SpecBatches == Init /\ [][NextBatches]_vars

\* route.ts 82-86: the response body is the frames of the events sent, in order
BodyOf(evs) == Flatten([i \in 1..Len(evs) |-> Encode(evs[i])])

\* one sendMessage and the POST handler that serves it: the request is handled
\* once the client has sent it, and the client reads the body the handler wrote
NextTurn ==
    \/ SendMessage
    \/ (cpc = "fetching" /\ turn = 0 /\ PostUnauthorized)
    \/ (cpc = "fetching" /\ turn = 0 /\ \E pid \in {"p1", NoProject} : Post(pid))
    \/ \E failure \in {"LLM API error", "No response from LLM", "fetch failed"} :
           BackendFails(failure)
    \/ \E content \in {"answer", Null} : FinalAnswer(content)
    \/ (pc = "loop" /\ \E list \in ToolCallLists(nextId) : ToolCallsRequested(list))
    \/ LoopExit
    \/ ToolCallEmit
    \/ ToolCallArgsThrow
    \/ \E result \in {"result-json", "error-json", "unknown-tool-json"} :
           ToolCallFinish(result)
    \/ PersistAndDone
    \/ (pc = "unauthorized" /\ FetchNotOk)
    \/ (cpc = "fetching" /\ pc = "closed" /\ Len(events) <= MaxStream
          /\ FetchOk(BodyOf(events)))
    \/ (cpc = "reading" /\ \E n \in 1..(Len(stream) - pos) : ReadChunk(n))
    \/ ReadDone
    \/ RequestFails

\* one turn end to end: useChat, the POST handler, and the stream between them
SpecTurn == Init /\ [][NextTurn]_vars

NextMcp == McpNext

\* the HTTP server of the MCP transport and its session registry
SpecMcp == Init /\ [][NextMcp]_vars

\* sendMessage calls that overlap, and stopGeneration
NextChat ==
    \/ \E k \in Sends : ChatSend(k)
    \/ \E k \in Sends : ChatFetchNotOk(k)
    \/ \E k \in Sends : \E body \in ChatBodies : ChatFetchOk(k, body)
    \/ \E k \in Sends : ChatApply(k)
    \/ \E k \in Sends : ChatStreamEnd(k)
    \/ \E k \in Sends : ChatFails(k)
    \/ StopGeneration
    \/ \E k \in Sends : ChatAbortRejects(k)

SpecChat == Init /\ [][NextChat]_vars

\* the mount effect's loadHistory and the first sendMessage call
NextHistory ==
    \/ LoadHistoryStart
    \/ \E rows \in HistoryRows : LoadHistoryCompletes(rows)
    \/ LoadHistoryFails
    \/ ChatSend(1)
    \/ ChatFetchNotOk(1)
    \/ \E body \in ChatBodies : ChatFetchOk(1, body)
    \/ ChatApply(1)
    \/ ChatStreamEnd(1)
    \/ ChatFails(1)

SpecHistory == Init /\ [][NextHistory]_vars

NextClient == ClientNext

\* the Stream Reconstructor reading one response body
SpecClient == Init /\ [][NextClient]_vars

NextTools == ToolNext

\* executeTool called with any name and args, against any extraction service
SpecTools == Init /\ [][NextTools]_vars

\* handleEvent applied to event sequences of its input type ChatSSEEvent
EventsIn(i) ==
    { Event("status", Null, Texts[i]),
      Event("tool_call", "list_configs", "args"),
      Event("tool_call", "no_such_tool", "args"),
      Event("tool_result", "list_configs", Texts[i]),
      Event("message", Null, Texts[i]),
      Event("error", Null, Texts[i]),
      Event("done", Null, Null) }

\* line 122: one decoded event is handed to handleEvent
HandleEvent(event) ==
    /\ cpc = "reading"
    /\ LET st == handleEvent([messages |-> messages, status |-> status,
                              handled |-> handled], event, AssistantId)
       IN /\ messages' = st.messages
          /\ status' = st.status
          /\ handled' = st.handled
    /\ UNCHANGED <<cpc, stream, pos, buffer, isLoading>>
    /\ UNCHANGED exceptClient

\* the state sendMessage is in when the first event arrives
InitEvents ==
    /\ ServerInit
    /\ ToolInit
    /\ BatchInit
    /\ McpInit
    /\ ChatInit
    /\ cpc = "reading"
    /\ stream = <<>>
    /\ pos = 0
    /\ buffer = <<>>
    /\ messages = Optimistic
    /\ status = Null
    /\ isLoading = TRUE
    /\ handled = <<>>

NextEvents ==
    Len(handled) < MaxEvents /\ \E event \in EventsIn(Len(handled) + 1) : HandleEvent(event)

SpecEvents == InitEvents /\ [][NextEvents]_vars

\* ------------------------------------------------------------------ properties
Count(evs, type) == Cardinality({ i \in DOMAIN evs : evs[i].type = type })

IndexOf(evs, type) == CHOOSE i \in DOMAIN evs : evs[i].type = type

HasEvent(type, payload) ==
    \E i \in DOMAIN events : events[i].type = type /\ events[i].payload = payload

BackendFailures == {"LLM API error", "No response from LLM", "fetch failed"}

BackendFailed ==
    \E i \in DOMAIN events :
        events[i].type = "error" /\ events[i].payload \in BackendFailures

\* the assistant and tool messages the turn has appended to the conversation
Produced ==
    SubSeq(conversation, 2 + Len(history) + Len(clientMessages), Len(conversation))

\* the turn ended with a response that carried no tool calls
Answered ==
    /\ Produced # <<>>
    /\ Produced[Len(Produced)].role = "assistant"
    /\ Produced[Len(Produced)].tool_calls = <<>>

\* C1: the events of a turn contain at most one done; done is sent when the
\* stream is closed and not before, and it is the last event of a closed stream,
\* whichever way the loop ended.
C1_ExactlyOneDoneLast ==
    LET dones == Count(events, "done")
    IN /\ dones <= 1
       /\ (dones = 1 => pc = "closed")
       /\ (pc = "closed" =>
              /\ dones = 1
              /\ events[Len(events)].type = "done")

\* a turn that ended by the exception of an undecodable tool argument is closed
C1_Witness == pc = "closed" /\ HasEvent("error", "SyntaxError")

\* what the insert stores of a message of the conversation
Persisted(m) == Msg(m.role, Coalesce(m.content), m.tool_calls, m.tool_call_id, Null)

C3_RoundsBounded ==
    /\ rounds <= MAX_TOOL_ROUNDS
    /\ (/\ pc \in {"persist", "closed"}
        /\ Count(events, "message") = 0
        /\ Count(events, "error") = 0)
           => rounds = MAX_TOOL_ROUNDS

\* the round limit was exhausted
C3_Witness ==
    /\ pc = "closed"
    /\ rounds = MAX_TOOL_ROUNDS
    /\ Count(events, "message") = 0
    /\ Count(events, "error") = 0

ToolEvents == SelectSeq(events, LAMBDA e : e.type \in {"tool_call", "tool_result"})

\* C4: the tool_call and tool_result events of a turn alternate, each
\* tool_result carrying the tool_name of the tool_call before it; only while
\* executeTool runs is the last tool_call without its tool_result, so every
\* tool_call has its one tool_result before the next completion call.
C4_CallThenResult ==
    LET T == ToolEvents
    IN /\ \A i \in DOMAIN T :
              IF i % 2 = 1 THEN T[i].type = "tool_call"
              ELSE /\ T[i].type = "tool_result"
                   /\ T[i].tool_name = T[i - 1].tool_name
       /\ (pc = "exec") <=> (Len(T) % 2 = 1)

\* one response asked for two tools, the first of which failed
C4_Witness ==
    /\ pc = "loop"
    /\ Len(tool_calls) = 2
    /\ Len(ToolEvents) = 4
    /\ ToolEvents[2].payload = "error-json"

\* C5: a closed turn that ended with a plain-text answer sent exactly one
\* message event and exactly one done event, the message before the done.
C5_MessageThenDone ==
    (pc = "closed" /\ Answered) =>
        /\ Count(events, "message") = 1
        /\ Count(events, "done") = 1
        /\ IndexOf(events, "message") < IndexOf(events, "done")

\* an answer that followed a tool round
C5_Witness == pc = "closed" /\ Answered /\ Count(events, "tool_result") > 0

CallIds(m) == { m.tool_calls[i].id : i \in DOMAIN m.tool_calls }

\* every tool message answers a call of the nearest assistant message before
\* it, with only tool messages of that assistant message in between
ToolMessagesFollowCalls(log) ==
    \A i \in DOMAIN log :
        log[i].role = "tool" =>
            \E j \in 1..(i - 1) :
                /\ log[j].role = "assistant"
                /\ log[i].tool_call_id \in CallIds(log[j])
                /\ \A k \in (j + 1)..(i - 1) :
                       /\ log[k].role = "tool"
                       /\ log[k].tool_call_id \in CallIds(log[j])

\* C6: in the history a turn reads in created_at order, and in every
\* conversation sent to the backend, each tool message follows the assistant
\* message whose call it answers, directly or after sibling tool messages.
C6_ToolMessagesFollowCalls ==
    /\ ToolMessagesFollowCalls(history)
    /\ (pc = "loop" => ToolMessagesFollowCalls(conversation))

\* what the reader makes of the body when it arrives as one chunk
WholeBody(body) ==
    LET read == ApplyChunk([messages |-> Optimistic, status |-> Null, handled |-> <<>>],
                           <<>>, body, AssistantId).st.messages
    IN MapMsg(read, AssistantId, [m \in Members(read) |-> MarkDone(m)])

\* C7: when the read loop has ended, the UI messages are those the body gives
\* when read as a single chunk, however it was chunked.
C7_ChunkingIndependent ==
    cpc = "done" => messages = WholeBody(stream)

TheAssistant == CHOOSE m \in { messages[i] : i \in DOMAIN messages } : m.id = AssistantId

\* C8: after two tool_call events of one name and then two tool_result events
\* of that name, the first call carries the first result and the second call
\* the second.
C8_ResultsAttachInCallOrder ==
    (/\ Len(handled) = 4
     /\ handled[1].type = "tool_call" /\ handled[2].type = "tool_call"
     /\ handled[3].type = "tool_result" /\ handled[4].type = "tool_result"
     /\ \A i \in 1..4 : handled[i].tool_name = handled[1].tool_name)
        => /\ TheAssistant.toolCalls[1].result = handled[3].payload
           /\ TheAssistant.toolCalls[2].result = handled[4].payload

\* C9: once a completion call has failed, the turn has sent exactly one error
\* event, nothing but done follows it, the loop is over (no further completion
\* or tool call), and the closed turn has stored exactly the messages
\* accumulated so far: after a failure in round 1, the user message alone.
C9_BackendFailureEndsTurn ==
    BackendFailed =>
        /\ Count(events, "error") = 1
        /\ pc \in {"persist", "closed"}
        /\ \A i \in DOMAIN events :
               i > IndexOf(events, "error") => events[i].type = "done"
        /\ (pc = "closed" /\ projectId # NoProject) =>
               /\ Len(store) = Len(history) + Len(messagesToPersist)
               /\ \A j \in DOMAIN messagesToPersist :
                      OrMsg(store[Len(history) + j]) = OrMsg(messagesToPersist[j])
               /\ rounds = 1 =>
                      /\ Len(store) = Len(history) + Len(clientMessages)
                      /\ store[Len(store)].role = "user"

\* the first completion call of a turn failed and the turn is closed
C9_Witness ==
    /\ pc = "closed"
    /\ projectId # NoProject
    /\ rounds = 1
    /\ HasEvent("error", "LLM API error")

\* the tool calls the turn's assistant messages carry
RequestedCalls ==
    UNION { { Produced[i].tool_calls[k] : k \in DOMAIN Produced[i].tool_calls } :
            i \in DOMAIN Produced }

\* C10: a tool call whose arguments do not decode is answered by a tool message
\* in the conversation and a tool_result event, and no error event ends the turn
\* because of it.
C10_BadArgumentsAreAToolResult ==
    pc \in {"persist", "closed"} =>
        /\ ~HasEvent("error", "SyntaxError")
        /\ \A tc \in RequestedCalls :
               ~JsonParses(ArgsText(tc)) =>
                   /\ \E i \in DOMAIN Produced :
                          Produced[i].role = "tool" /\ Produced[i].tool_call_id = tc.id
                   /\ \E i \in DOMAIN events :
                          events[i].type = "tool_result" /\ events[i].tool_name = tc.name

\* C11: executeTool never throws, whatever its name and args: the call of an
\* unrecognised name returns the "Unknown tool" error text without a request,
\* and a request that fails (no connection, a non-success status, a body that
\* is not JSON) or an exception in the switch returns an error text.
C11_ExecuteToolNeverThrows ==
    /\ tpc # "thrown"
    /\ tpc = "returned" =>
           /\ tresult.kind \in {"result", "error"}
           /\ callName \notin ToolCases =>
                  tresult = ErrorText("Unknown tool") /\ requests = 0
           /\ tresponse.kind \in {"unreachable", "not_ok", "not_json"} =>
                  tresult.kind = "error"
           /\ (~callArgs.object /\ callName \in ToolCases \ ArgFreeTools) =>
                  tresult.kind = "error"

\* a call whose request the extraction service refused has returned
C11_Witness ==
    /\ tpc = "returned"
    /\ tresponse.kind = "not_ok"
    /\ tresult.kind = "error"

\* the file sources a call supplies
SourceCount(args) ==
    Cardinality({ f \in {"file_url", "file_base64", "file_path"} : args[f] })

\* C12: a call of extract_document or extract_sheet that does not supply
\* exactly one file source sends no request and returns an error text.
C12_ExactlyOneSource ==
    (callName \in ExtractTools /\ callArgs.object /\ SourceCount(callArgs) # 1) =>
        /\ requests = 0
        /\ tpc = "returned" => tresult.kind = "error"

\* C13: a returned successful result of serialization length L is the
\* serialization unchanged when L <= MAX_RESULT_CHARS, and otherwise its first
\* MAX_RESULT_CHARS characters followed by the truncation notice.
C13_TruncatedToBudget ==
    (tpc = "returned" /\ tresult.kind = "result") =>
        IF tresult.of <= MAX_RESULT_CHARS
        THEN tresult.shown = tresult.of /\ ~tresult.notice
        ELSE tresult.shown = MAX_RESULT_CHARS /\ tresult.notice

\* the tool calls the turn's responses asked for, in request order
Calls == Flatten([i \in 1..Len(Produced) |-> Produced[i].tool_calls])

\* the tool messages of the turn, in the order of the conversation
ToolMessages == SelectSeq(Produced, LAMBDA m : m.role = "tool")

CallProgress ==
    SelectSeq(events, LAMBDA e : e.type \in {"tool_call", "status", "tool_result"})

\* C14: the requested tool calls are handled one at a time in request order:
\* the events tool_call, status, tool_result of the k-th requested call come
\* as one group, in this order, before the group of the next call; the tool is
\* running exactly between status and tool_result; the k-th tool message of
\* the conversation answers the k-th call and is there when its tool_result
\* is; and when the next completion call can be made every requested call has
\* its tool message.
C14_OneCallAtATime ==
    LET P == CallProgress
        calls == Calls
        msgs == ToolMessages
    IN /\ \A i \in DOMAIN P :
              LET k == (i + 2) \div 3 IN
              /\ k <= Len(calls)
              /\ P[i].type = CASE i % 3 = 1 -> "tool_call"
                                [] i % 3 = 2 -> "status"
                                [] OTHER -> "tool_result"
              /\ IF i % 3 = 2 THEN P[i].payload = calls[k].name
                 ELSE P[i].tool_name = calls[k].name
       /\ Len(P) % 3 = (IF pc = "exec" THEN 2 ELSE 0)
       /\ Len(msgs) = Len(P) \div 3
       /\ \A k \in DOMAIN msgs : msgs[k].tool_call_id = calls[k].id
       /\ pc = "loop" => Len(msgs) = Len(calls)
       /\ pc \in {"tools", "exec"} =>
              Len(msgs) = Len(calls) - Len(tool_calls) + tcIndex - 1

\* the second call of a response that asked for two, after an earlier round
C14_Witness ==
    /\ pc = "exec"
    /\ Len(tool_calls) = 2
    /\ tcIndex = 2
    /\ Len(Calls) = 3

\* the types of the events after the tool_call, status and tool_result events
\* at the head of the stream
AfterCallProgress ==
    LET n == Len(CallProgress)
    IN [i \in 1..(Len(events) - n) |-> events[n + i].type]

\* the types of a group of call events, in the order given
GroupsOf(first, second, third) ==
    \A i \in DOMAIN CallProgress :
        CallProgress[i].type = CASE i % 3 = 1 -> first
                                 [] i % 3 = 2 -> second
                                 [] OTHER -> third

\* C15 as stated: the events of a turn are groups of status, tool_call,
\* tool_result in this order, then a message or an error, then done.
C15_StatusThenToolCall ==
    /\ SubSeq(events, 1, Len(CallProgress)) = CallProgress
    /\ GroupsOf("status", "tool_call", "tool_result")
    /\ pc = "closed" =>
           AfterCallProgress \in {<<"message", "done">>, <<"error", "done">>}

\* C15 amended: the events of a turn are groups of tool_call, status,
\* tool_result in this order, one group per tool call run and nothing between
\* them, then at most one message or error, then done, which is there exactly
\* when the stream is closed; every event is there once.
C15_EventPattern ==
    /\ SubSeq(events, 1, Len(CallProgress)) = CallProgress
    /\ GroupsOf("tool_call", "status", "tool_result")
    /\ Len(CallProgress) = 3 * Len(ToolMessages) + (IF pc = "exec" THEN 2 ELSE 0)
    /\ AfterCallProgress \in
           IF pc = "closed"
           THEN {<<"done">>, <<"message", "done">>, <<"error", "done">>}
           ELSE IF pc = "persist" THEN {<<>>, <<"message">>, <<"error">>}
           ELSE {<<>>}

\* a closed turn that ran two tool calls and then ended with an error event
C15_Witness ==
    /\ pc = "closed"
    /\ Len(CallProgress) = 6
    /\ AfterCallProgress = <<"error", "done">>

\* the texts executeTool returns for a failure: an argument it refuses, a
\* request that failed, a name it does not know
ErrorResults == {"error-json", "unknown-tool-json"}

\* C16: when a tool call ends, also with an error text, the step sends exactly
\* one event, the tool_result carrying that text, and no error event; it
\* appends the tool message with that text to the conversation; and the
\* orchestrator goes on with the next tool call of the response or, after the
\* last one, is back at the head of the loop for the next completion call.
C16_ToolErrorsNotTerminal ==
    [][(pc = "exec" /\ pc' # "exec") =>
          LET tc == tool_calls[tcIndex]
              msg == conversation'[Len(conversation')]
          IN /\ Len(conversation') = Len(conversation) + 1
             /\ msg.role = "tool"
             /\ msg.tool_call_id = tc.id
             /\ events' = Append(events, Event("tool_result", tc.name, msg.content))
             /\ pc' = IF tcIndex < Len(tool_calls) THEN "tools" ELSE "loop"
             /\ rounds' = rounds]_vars

\* after a tool call that returned an error text the next call of the same
\* response is being handled
C16_Witness ==
    /\ pc = "exec"
    /\ tcIndex = 2
    /\ ToolMessages # <<>>
    /\ ToolMessages[Len(ToolMessages)].content \in ErrorResults
    /\ Count(events, "error") = 0

\* every one of the MAX_TOOL_ROUNDS responses asked for tools and all the calls
\* have run
Exhausted ==
    /\ Cardinality({ i \in DOMAIN Produced : Produced[i].tool_calls # <<>> })
           = MAX_TOOL_ROUNDS
    /\ Len(ToolMessages) = Len(Calls)

\* C17: a turn whose MAX_TOOL_ROUNDS rounds all ended in tool calls sends no
\* message and no error event; when it is closed the one event after the last
\* tool_result is done, and the rows of the turn (the user message, the
\* assistant and tool messages) are in the table.
C17_SilentExhaustion ==
    Exhausted =>
        /\ pc \in {"loop", "persist", "closed"}
        /\ Count(events, "message") = 0
        /\ Count(events, "error") = 0
        /\ pc = "closed" =>
               /\ events[Len(events)].type = "done"
               /\ events[Len(events) - 1].type = "tool_result"
               /\ projectId # NoProject =>
                      /\ Len(store) = Len(history) + Len(messagesToPersist)
                      /\ Len(messagesToPersist) =
                             Len(clientMessages) + MAX_TOOL_ROUNDS + Len(Calls)
                      /\ \A j \in DOMAIN messagesToPersist :
                             OrMsg(store[Len(history) + j]) = OrMsg(messagesToPersist[j])

\* a closed turn with a project id that used up the round limit
C17_Witness == Exhausted /\ pc = "closed" /\ projectId # NoProject

\* the Conversation Context of the first completion call of a turn
FirstContext == <<SystemMsg>> \o OrMsgs(history) \o UserMsgs(clientMessages)

\* C18: the first completion call of a turn receives [system] + history + the
\* new user input; every later call receives the context of the call before it,
\* unchanged, followed by the assistant message of that call's response and one
\* tool message for each call it requested, in the order requested.
C18_ContextOnlyGrows ==
    [][requestMessages' # requestMessages /\ turn' = turn =>
          LET before == requestMessages
              now == requestMessages'
              n == Len(before)
          IN IF before = <<>>
             THEN now = FirstContext
             ELSE /\ Len(now) = n + 1 + Len(tool_calls)
                  /\ SubSeq(now, 1, n) = before
                  /\ now[n + 1] = Msg("assistant", Null, tool_calls, NoId, Null)
                  /\ tool_calls # <<>>
                  /\ \A k \in DOMAIN tool_calls :
                         /\ now[n + 1 + k].role = "tool"
                         /\ now[n + 1 + k].tool_call_id = tool_calls[k].id]_vars

\* a later completion call of a turn has been made after rounds that together
\* requested three calls or more
C18_Witness ==
    /\ rounds >= 3
    /\ Len(requestMessages) > Len(FirstContext) + 4
    /\ pc = "closed"

\* the rows of the table that hold the user input of the current turn
TurnRows(rows) ==
    { i \in DOMAIN rows :
        turn > 0 /\ rows[i].role = "user" /\ rows[i].content = UserTexts[turn] }

\* C19: the table changes only in the step that follows the loop, by the one
\* insert of the turn's batch after the rows that were there, and until that
\* step, also when the turn is abandoned mid-loop, the table holds nothing of
\* the turn: it is the table as it was before the turn.
C19_OneWriteAfterLoop ==
    [][/\ store' # store =>
             /\ pc = "persist" /\ pc' = "closed"
             /\ turn' = turn
             /\ TurnRows(store) = {}
             /\ store' = Insert(store, messagesToPersist, clock)
             /\ SubSeq(store', 1, Len(store)) = store
       /\ pc' \in {"loop", "tools", "exec", "persist", "crashed"} =>
             /\ TurnRows(store)' = {}
             /\ (turn' = turn => store' = store)]_vars

\* a second turn with a project id was abandoned after tool calls had run, and
\* the table holds the rows of the first turn only
C19_Witness ==
    /\ pc = "crashed"
    /\ turn = 2
    /\ projectId # NoProject
    /\ Len(ToolMessages) > 0
    /\ store # <<>>

\* the rows of b stand side by side in log, in the order of b
ContiguousInOrder(log, b) ==
    \E s \in 0..(Len(log) - Len(b)) :
        \A k \in DOMAIN b : OrMsg(log[s + k]) = OrMsg(Row(b[k], 0))

\* C20: when both concurrent handlers have inserted their batches, a read of
\* the log in created_at order shows the messages of each batch side by side
\* and in the order in which the handler accumulated them.
C20_BatchesContiguousInOrder ==
    (Len(history) = Len(store) /\ \A h \in Handlers : bpc[h] = "done") =>
        \A h \in Handlers : ContiguousInOrder(history, batches[h])

\* the UI state after handleEvent has been applied to evs in order
RECURSIVE HandleAll(_, _)
HandleAll(st, evs) ==
    IF evs = <<>> THEN st
    ELSE HandleAll(handleEvent(st, Head(evs), AssistantId), Tail(evs))

\* the tool-call entries of the streaming assistant message when the i-th
\* handled event is about to be applied
CallsBefore(i) ==
    LET st == HandleAll([messages |-> Optimistic, status |-> Null, handled |-> <<>>],
                        SubSeq(handled, 1, i - 1))
    IN (CHOOSE m \in Members(st.messages) : m.id = AssistantId).toolCalls

\* the events handled before the i-th that are not status events
NotStatusBefore(i) == SelectSeq(SubSeq(handled, 1, i - 1), LAMBDA e : e.type # "status")

\* C21: whenever the client applies a tool_result event of a turn the
\* orchestrator has emitted, the streaming assistant message has at most one
\* tool-call entry without a result, and that entry is the last one, created by
\* the tool_call event of the same name handled just before.
C21_OneUnresolvedCall ==
    \A i \in DOMAIN handled :
        handled[i].type = "tool_result" =>
            LET calls == CallsBefore(i)
                open == { k \in DOMAIN calls : Unresolved(calls[k]) }
                before == NotStatusBefore(i)
            IN /\ Cardinality(open) <= 1
               /\ open # {}
               /\ open = {Len(calls)}
               /\ before # <<>>
               /\ before[Len(before)].type = "tool_call"
               /\ before[Len(before)].tool_name = handled[i].tool_name

\* C22: once the client has applied an error event of the turn, the streaming
\* assistant message shows "Error: " and the detail of that event and is no
\* longer streaming, for as long as the read loop goes on and when it has ended.
C22_ErrorIsTerminal ==
    \A i \in DOMAIN handled :
        (handled[i].type = "error" /\ cpc \in {"reading", "done"}) =>
            /\ TheAssistant.content = <<"Error: ", handled[i].payload>>
            /\ ~TheAssistant.isStreaming

\* the read loop ended after an error event and the done event behind it
C22_Witness ==
    /\ cpc = "done"
    /\ \E i \in DOMAIN handled :
           /\ handled[i].type = "error"
           /\ i < Len(handled)
           /\ handled[Len(handled)].type = "done"

\* the streaming assistant message when the first i handled events have been
\* applied
AssistantAfter(i) ==
    LET st == HandleAll([messages |-> Optimistic, status |-> Null, handled |-> <<>>],
                        SubSeq(handled, 1, i))
    IN CHOOSE m \in Members(st.messages) : m.id = AssistantId

\* C23: when the client applies a done event, the streaming assistant message
\* is no longer streaming from then on, and its content and tool-call list are
\* what they were before the event.
C23_DoneStopsStreaming ==
    \A i \in DOMAIN handled :
        handled[i].type = "done" =>
            /\ ~AssistantAfter(i).isStreaming
            /\ AssistantAfter(i).content = AssistantAfter(i - 1).content
            /\ AssistantAfter(i).toolCalls = AssistantAfter(i - 1).toolCalls

\* every tool call an assistant message of the batch lists has exactly one tool
\* message with its id later in the batch
Resolved(batch) ==
    \A i \in DOMAIN batch :
        \A k \in DOMAIN batch[i].tool_calls :
            Cardinality({ j \in (i + 1)..Len(batch) :
                            /\ batch[j].role = "tool"
                            /\ batch[j].tool_call_id = batch[i].tool_calls[k].id }) = 1

\* C28: the batch a turn has written lists no tool call without its tool
\* message, whatever way the turn ended.
C28_NoUnresolvedCallPersisted ==
    (pc = "closed" /\ projectId # NoProject) => Resolved(messagesToPersist)

\* the session ids of the transports whose initialization has completed and
\* whose close callback has not run
LiveSessions ==
    { transports[t].sessionId : t \in { u \in DOMAIN transports :
                                            transports[u].state = "initialized" } }

\* the registry holds exactly the live sessions, each under the transport that
\* generated the id
RegistryExact ==
    /\ DOMAIN sessions = LiveSessions
    /\ \A id \in DOMAIN sessions :
           /\ sessions[id] \in DOMAIN transports
           /\ transports[sessions[id]].sessionId = id

AssistantOf(msgs, k) == { m \in Members(msgs) : m.id = ChatAssistantIds[k] }

\* C24: the step in which stopGeneration aborts a call, and the step in which
\* the aborted call's pending request rejects, leave every message as it is;
\* the step in which a call fails otherwise sets its assistant message to
\* "Error: " and the detail, no longer streaming.
C24_AbortIsSuppressed ==
    [][\A k \in Sends :
          /\ (aborted' # aborted \/ (spc[k] # "aborted" /\ spc'[k] = "aborted")) =>
                 messages' = messages
          /\ (spc[k] # "failed" /\ spc'[k] = "failed") =>
                 /\ Len(messages') = Len(messages)
                 /\ \A m \in AssistantOf(messages', k) :
                        /\ m.content = <<"Error: ", "network error">>
                        /\ ~m.isStreaming]_vars

\* the first call was cancelled while it was reading and shows the text it had
\* received; the second call failed and shows the error
C24_Witness ==
    /\ spc[1] = "aborted"
    /\ \E m \in AssistantOf(messages, 1) : m.content = << "t1" >>
    /\ spc[2] = "failed"
    /\ \E m \in AssistantOf(messages, 2) : m.content = <<"Error: ", "network error">>

\* C25: once stopGeneration has run, no event of a call that was in flight at
\* that moment is applied to the messages or the status.
C25_NoEventAfterStop ==
    [][\A k \in Sends :
          (spc[k] = "reading" /\ remaining'[k] # remaining[k]) => k \notin cancelled]_vars

\* C29: the assistant message of a call that is over, by the end of the stream,
\* a response that is not ok, a failure or a cancellation, is not streaming.
C29_NoStreamingAfterTurn ==
    \A k \in Sends :
        spc[k] \in {"done", "notok", "failed", "aborted"} =>
            \A m \in AssistantOf(messages, k) : ~m.isStreaming

\* C30: when loadHistory completes while a call is in flight, the call's user
\* message and assistant placeholder are still in the list, and an event of the
\* call applied afterwards finds the placeholder.
C30_HistoryKeepsTurn ==
    [][/\ (lpc = "loading" /\ lpc' = "loaded") =>
             \A k \in InFlight :
                 /\ AssistantOf(messages', k) = AssistantOf(messages, k)
                 /\ \E m \in Members(messages') : m.id = ChatUserIds[k]
       /\ \A k \in Sends :
             (spc[k] = "reading" /\ remaining'[k] # remaining[k]) =>
                 AssistantOf(messages, k) # {}]_vars

\* ------------------------------------------------------------------ C26
\* A response body is a sequence of frames of seven elements each; the fifth
\* element of a frame is its payload.
FrameLen == Len(Encode(Event("done", Null, Null)))
PayloadAt == 5

\* the element at position p of body s belongs to a frame whose payload decodes
Survives(s, p) == s[FrameLen * ((p - 1) \div FrameLen) + PayloadAt].ch = "json"

\* the elements a..b of body s, those of malformed frames removed
RECURSIVE Kept(_, _, _)
Kept(s, a, b) ==
    IF a > b THEN <<>>
    ELSE (IF Survives(s, a) THEN << s[a] >> ELSE <<>>) \o Kept(s, a + 1, b)

\* the events of the well-formed frames of body s, in order
WellFormed(s) ==
    LET frames == SelectSeq([f \in 1..(Len(s) \div FrameLen) |-> f],
                            LAMBDA f : Survives(s, FrameLen * f))
    IN [i \in 1..Len(frames) |->
          Event(s[FrameLen * (frames[i] - 1) + 2].text,
                s[FrameLen * (frames[i] - 1) + PayloadAt].tool_name,
                s[FrameLen * (frames[i] - 1) + PayloadAt].text)]

\* the unterminated rest the read loop holds after the elements 1..p of the
\* body without its malformed frames
KeptBuffer(s, p) ==
    LET pieces == Split(Kept(s, 1, p), <<>>) IN pieces[Len(pieces)]

\* a read that delivers the elements pos+1..pos' leaves the messages, the
\* status and the handled events as the same read loop leaves them when the
\* malformed frames are taken out of the body and of the chunk
MalformedChangeNothing ==
    (cpc = "reading" /\ pos' > pos) =>
        LET r == ApplyChunk([messages |-> messages, status |-> status,
                             handled |-> handled],
                            KeptBuffer(stream, pos),
                            Kept(stream, pos + 1, pos'), AssistantId)
        IN /\ messages' = r.st.messages
           /\ status' = r.st.status
           /\ handled' = r.st.handled

\* at the end of the stream every well-formed frame has reached handleEvent,
\* in order and with its payload (with its own type, or with the type "" of a
\* frame whose event: line came in an earlier chunk), no malformed frame has,
\* and the message list is the one these events give
AllWellFormedApplied ==
    cpc = "done" =>
        LET wf == WellFormed(stream) IN
        /\ Len(handled) = Len(wf)
        /\ \A i \in 1..Len(wf) :
              /\ handled[i].payload = wf[i].payload
              /\ handled[i].tool_name = wf[i].tool_name
              /\ handled[i].type \in {wf[i].type, ChunkEventType}
        /\ messages =
              MapMsg(HandleAll([messages |-> Optimistic, status |-> Null,
                                handled |-> <<>>], handled).messages,
                     AssistantId,
                     [m \in Members(HandleAll([messages |-> Optimistic, status |-> Null,
                                                handled |-> <<>>], handled).messages)
                        |-> MarkDone(m)])

====
